---- MODULE Spec2Model ----
(***************************************************************************)
(* Generalized Tic-Tac-Toe engine (src/src/TicTacToe.py): the Grid and     *)
(* TicTacToe classes as operators over records, and the constructor and    *)
(* try_move as actions of a state machine.                                 *)
(***************************************************************************)
EXTENDS Integers, Sequences, FiniteSets, TLC

VARIABLES
    status,      \* "new" (nothing constructed), "playing" (a TicTacToe object exists), "error" (__init__ raised)
    game,        \* the TicTacToe object: [num_players, size, cur_player, grid |-> [size, values]]
    args,        \* the arguments the constructor was last called with: <<num_players, size>>; in the GUI its num_players and board_size
    ret,         \* what the last call returned or raised
    moves_made,  \* history: how many try_move calls have returned True
    past_end,    \* history: some try_move returned True on a game that was already over
    player_types, \* the caller's list of player types, True for a bot; <<>> when no bot is in use
    bot_call,    \* history: the last get_move call, see NoCall
    bots         \* the caller's list of bots: 0 for None, p for Bot(game, p); <<>> when no bot is in use

vars == <<status, game, args, ret, moves_made, past_end, player_types, bot_call, bots>>

----------------------------------------------------------------------------
(* Limits the constructor enforces. *)

MIN_PLAYERS == 2
MAX_PLAYERS == 4
MIN_SIZE == 3
MAX_SIZE == 7

(* Bounds of the exploration. *)

\* constructor arguments are drawn from 0..MaxPlayersArg and 0..MaxSizeArg
MaxPlayersArg == 6
MaxSizeArg == 9
\* on boards larger than the smallest one, at most MaxMoves moves succeed
MaxMoves == 3
\* on boards larger than the smallest one, Grid.change_value fills at most MaxFilled cells
MaxFilled == 4
\* unchecked coordinates are drawn from -size-MaxOvershoot .. size-1+MaxOvershoot
MaxOvershoot == 1
\* with unchecked coordinates, at most MaxWrites cells are filled
MaxWrites == 2
\* minimax is compared with the exhaustive search for depths 0 .. MaxDepth
MaxDepth == 3
\* a game with bots on a board larger than the smallest one is taken up when
\* at most MaxEmpty of its cells are still empty
MaxEmpty == 5

\* entries of the GUI's list of bots, which incr_num_players only ever extends
MaxBots == 6

\* board sizes on which moves are explored
PlayedSizes == {MIN_SIZE, MIN_SIZE + 1}

MoveCap(sz) == IF sz = MIN_SIZE THEN sz * sz ELSE MaxMoves

FillCap(sz) == IF sz = MIN_SIZE THEN sz * sz ELSE MaxFilled

----------------------------------------------------------------------------
(* Python helpers *)

\* range(n)
Range(n) == 0 .. (n - 1)

\* list indexing: a negative index counts from the end; outside [-n, n) it raises IndexError
IndexOk(n, i) == (0 - n) <= i /\ i < n

PyIndex(n, i) == IF i < 0 THEN n + i ELSE i

\* min and max of a non-empty finite set of integers
SetMin(S) == CHOOSE x \in S : \A y \in S : x <= y

SetMax(S) == CHOOSE x \in S : \A y \in S : x >= y

\* a loop that keeps the last match instead of returning at the first
LastMatch(S) == SetMax(S)

\* for i in range(n): if test(i): return ...   (S holds the i that pass the test)
FirstMatch(S) == SetMin(S)

----------------------------------------------------------------------------
(* class Grid *)

\* Grid.__init__
Grid(sz) ==
    [size |-> sz, values |-> [j \in Range(sz) |-> [i \in Range(sz) |-> 0]]]

\* Grid.transposed_values: row i of the result is column i of values
transposed_values(grid) ==
    [c \in Range(grid.size) |-> [r \in Range(grid.size) |-> grid.values[r][c]]]

\* 0 in row
RowHasZero(row) == \E i \in DOMAIN row : row[i] = 0

\* a full that returns from inside the loop, after looking at the first row only
full_first_row_only(grid) == ~ RowHasZero(grid.values[0])

\* a full that never reports a full grid
full_never(grid) == FALSE

\* Grid.full
full(grid) == ~ \E r \in Range(grid.size) : RowHasZero(grid.values[r])

\* the guard shared by get_cell and change_value
OutsideGrid(grid, loc) ==
    /\ (0 > loc[1] \/ loc[1] >= grid.size)
    /\ (0 > loc[2] \/ loc[2] >= grid.size)

\* Grid.get_cell: [err, val]; err is "none" when a value is returned
get_cell(grid, loc) ==
    IF OutsideGrid(grid, loc)
    THEN [err |-> "ValueError", val |-> 0]
    ELSE IF IndexOk(grid.size, loc[1]) /\ IndexOk(grid.size, loc[2])
         THEN [err |-> "none",
               val |-> grid.values[PyIndex(grid.size, loc[1])][PyIndex(grid.size, loc[2])]]
         ELSE [err |-> "IndexError", val |-> 0]

\* Grid.change_value: [err, grid]; the grid is unchanged when it raises
change_value(grid, loc, new_value) ==
    IF OutsideGrid(grid, loc)
    THEN [err |-> "ValueError", grid |-> grid]
    ELSE IF IndexOk(grid.size, loc[1]) /\ IndexOk(grid.size, loc[2])
         THEN [err |-> "none",
               grid |-> [grid EXCEPT !.values[PyIndex(grid.size, loc[1])][PyIndex(grid.size, loc[2])]
                                          = new_value]]
         ELSE [err |-> "IndexError", grid |-> grid]

----------------------------------------------------------------------------
(* class TicTacToe *)

\* the argument checks without the rule for the smallest board
InitCheckNoSmallBoardRule(num_players, size) ==
    IF num_players < MIN_PLAYERS THEN "ValueError"
    ELSE IF num_players > MAX_PLAYERS THEN "ValueError"
    ELSE IF size < MIN_SIZE THEN "ValueError"
    ELSE IF size > MAX_SIZE THEN "ValueError"
    ELSE "ok"

\* the argument checks of TicTacToe.__init__, in the order of the code: the
\* message of the first check that fails, "ok" when none does
InitCheck(num_players, size) ==
    IF num_players < MIN_PLAYERS THEN "ValueError"
    ELSE IF num_players > MAX_PLAYERS THEN "ValueError"
    ELSE IF size < MIN_SIZE THEN "ValueError"
    ELSE IF size > MAX_SIZE THEN "ValueError"
    ELSE IF size = MIN_SIZE /\ num_players > MIN_PLAYERS THEN "ValueError"
    ELSE "ok"

\* the object TicTacToe.__init__ builds when it does not raise
NewGame(num_players, size) ==
    [num_players |-> num_players, size |-> size, cur_player |-> 1, grid |-> Grid(size)]

\* no object
NoGame == [num_players |-> 0, size |-> 0, cur_player |-> 0, grid |-> Grid(0)]

\* the row test without its non-zero condition
RowUniformOrEmpty(row) == \A i \in DOMAIN row : row[i] = row[0]

\* all(x == row[0] for x in row) and row[0] != 0
RowUniform(row) == (\A i \in DOMAIN row : row[i] = row[0]) /\ row[0] # 0

\* the main-diagonal test of game_over and winning_line
DiagUniform(g) ==
    /\ \A i \in Range(g.size) : g.grid.values[i][i] = g.grid.values[0][0]
    /\ g.grid.values[0][0] # 0

\* an anti-diagonal test that compares with the corner of the main diagonal
AntiDiagUniformFromTopLeft(g) ==
    /\ \A i \in Range(g.size) : g.grid.values[g.size - 1 - i][i] = g.grid.values[0][0]
    /\ g.grid.values[0][0] # 0

\* the anti-diagonal test of game_over and winning_line
AntiDiagUniform(g) ==
    /\ \A i \in Range(g.size) :
          g.grid.values[g.size - 1 - i][i] = g.grid.values[g.size - 1][0]
    /\ g.grid.values[g.size - 1][0] # 0

\* game_over without the loop over the columns
game_over_no_columns(g) ==
    IF full(g.grid) THEN TRUE
    ELSE IF DiagUniform(g) THEN TRUE
    ELSE IF AntiDiagUniform(g) THEN TRUE
    ELSE IF \E r \in Range(g.size) : RowUniform(g.grid.values[r]) THEN TRUE
    ELSE FALSE

\* TicTacToe.game_over
game_over(g) ==
    IF full(g.grid) THEN TRUE
    ELSE IF DiagUniform(g) THEN TRUE
    ELSE IF AntiDiagUniform(g) THEN TRUE
    ELSE IF \E r \in Range(g.size) : RowUniform(g.grid.values[r]) THEN TRUE
    ELSE IF \E c \in Range(g.size) : RowUniform(transposed_values(g.grid)[c]) THEN TRUE
    ELSE FALSE

\* Optional[list[Point]]: None, or a list of points
None == [is_none |-> TRUE, points |-> <<>>]

Some(points) == [is_none |-> FALSE, points |-> points]

\* TicTacToe.winning_line; the list [f(i) for i in range(size)] is the sequence
\* whose k-th element is f(k - 1)
winning_line(g) ==
    LET rows == {r \in Range(g.size) : RowUniform(g.grid.values[r])}
        cols == {c \in Range(g.size) : RowUniform(transposed_values(g.grid)[c])}
    IN  IF DiagUniform(g)
        THEN Some([k \in 1 .. g.size |-> <<k - 1, k - 1>>])
        ELSE IF AntiDiagUniform(g)
        THEN Some([k \in 1 .. g.size |-> <<g.size - 1 - (k - 1), k - 1>>])
        ELSE IF rows # {}
        THEN Some([k \in 1 .. g.size |-> <<FirstMatch(rows), k - 1>>])
        ELSE IF cols # {}
        THEN Some([k \in 1 .. g.size |-> <<k - 1, FirstMatch(cols)>>])
        ELSE IF full(g.grid) THEN Some(<<>>)
        ELSE None

\* winners with the tie list built by range(1, num_players)
winners_short_range(g) ==
    LET line == winning_line(g)
    IN  IF line.is_none THEN <<>>
        ELSE IF line.points = <<>> THEN [k \in 1 .. (g.num_players - 1) |-> k]
        ELSE <<get_cell(g.grid, line.points[1]).val>>

\* TicTacToe.winners
winners(g) ==
    LET line == winning_line(g)
    IN  IF line.is_none THEN <<>>
        ELSE IF line.points = <<>> THEN [k \in 1 .. g.num_players |-> k]
        ELSE <<get_cell(g.grid, line.points[1]).val>>

\* a rotation that wraps to 0 instead of 1
NextPlayerZeroBased(g) == (g.cur_player + 1) % g.num_players

\* the rotation of try_move: ((cur_player) % num_players) + 1
NextPlayer(g) == (g.cur_player % g.num_players) + 1

\* try_move without the occupancy test
try_move_overwrite(g, move) ==
    LET w == change_value(g.grid, move, g.cur_player)
    IN  IF w.err # "none" THEN [err |-> w.err, ret |-> FALSE, game |-> g]
        ELSE [err |-> "none", ret |-> TRUE,
              game |-> [g EXCEPT !.grid = w.grid, !.cur_player = NextPlayer(g)]]

\* try_move with its two assignments swapped: the cell gets the next player's id
try_move_rotate_first(g, move) ==
    LET cell == get_cell(g.grid, move)
    IN  IF cell.err # "none" THEN [err |-> cell.err, ret |-> FALSE, game |-> g]
        ELSE IF cell.val # 0 THEN [err |-> "none", ret |-> FALSE, game |-> g]
        ELSE LET w == change_value(g.grid, move, NextPlayer(g))
             IN  IF w.err # "none" THEN [err |-> w.err, ret |-> FALSE, game |-> g]
                 ELSE [err |-> "none", ret |-> TRUE,
                       game |-> [g EXCEPT !.grid = w.grid, !.cur_player = NextPlayer(g)]]

\* TicTacToe.try_move: [err, ret, game]; the game is unchanged when it raises
\* or returns False
try_move(g, move) ==
    LET cell == get_cell(g.grid, move)
    IN  IF cell.err # "none" THEN [err |-> cell.err, ret |-> FALSE, game |-> g]
        ELSE IF cell.val # 0 THEN [err |-> "none", ret |-> FALSE, game |-> g]
        ELSE LET w == change_value(g.grid, move, g.cur_player)
             IN  IF w.err # "none" THEN [err |-> w.err, ret |-> FALSE, game |-> g]
                 ELSE [err |-> "none", ret |-> TRUE,
                       game |-> [g EXCEPT !.grid = w.grid, !.cur_player = NextPlayer(g)]]

\* the cells with the two loops exchanged: column by column
ColumnMajor(sz) == [k \in 1 .. sz * sz |-> <<(k - 1) % sz, (k - 1) \div sz>>]

\* the cells in the order of the nested loops of available_moves:
\* for r in range(size): for c in range(size)
RowMajor(sz) == [k \in 1 .. sz * sz |-> <<(k - 1) \div sz, (k - 1) % sz>>]

\* the loop test of available_moves: self.grid.get_cell((r, c)) == 0
IsFree(g, loc) == get_cell(g.grid, loc).val = 0

\* TicTacToe.available_moves
available_moves(g) == SelectSeq(RowMajor(g.size), LAMBDA loc : IsFree(g, loc))

----------------------------------------------------------------------------
(* Objects and references.  A heap is a sequence of objects and a reference *)
(* is a position in it.  A TicTacToe object holds a reference to its Grid   *)
(* object; the rows of a Grid are kept inside the Grid object.              *)

\* the game a reference denotes, with its grid read through the reference
Load(heap, ref) ==
    [num_players |-> heap[ref].num_players, size |-> heap[ref].size,
     cur_player |-> heap[ref].cur_player, grid |-> heap[heap[ref].grid]]

\* a heap that holds one game, at reference 2 (its Grid is at reference 1)
HeapOf(g) ==
    <<g.grid,
      [num_players |-> g.num_players, size |-> g.size, cur_player |-> g.cur_player,
       grid |-> 1]>>

\* the reference of the game of HeapOf
LiveRef == 2

\* a copy that binds a second name to the same object
copy_alias(heap, ref) == [heap |-> heap, ref |-> ref]

\* a copy made with copy.copy: a new TicTacToe object that shares the Grid
copy_shallow(heap, ref) ==
    [heap |-> Append(heap, heap[ref]), ref |-> Len(heap) + 1]

\* TicTacToe.copy (deepcopy): a new Grid object and a new TicTacToe object
\* that refers to it; [heap, ref]
copy(heap, ref) ==
    [heap |-> heap \o <<heap[heap[ref].grid],
                        [heap[ref] EXCEPT !.grid = Len(heap) + 1]>>,
     ref |-> Len(heap) + 2]

\* game.try_move(move) on the object at ref: the fields try_move assigns are
\* stored into the TicTacToe object and into the Grid object it refers to
StoreMove(heap, ref, move) ==
    LET res == try_move(Load(heap, ref), move)
    IN  [heap EXCEPT ![ref].cur_player = res.game.cur_player,
                     ![heap[ref].grid] = res.game.grid]

\* the objects no name refers to any more are dropped: the heap is cut back to
\* the length it had before the loop body allocated its copy
Release(heap, len) == SubSeq(heap, 1, len)

----------------------------------------------------------------------------
(* class Bot.  Scores are counted in halves: 10 is 20, 0.5 is 1.            *)

\* float("inf") in halves: above every score
INF == 1000

WIN == 20

HALF == 1

Max2(a, b) == IF a >= b THEN a ELSE b

Min2(a, b) == IF a <= b THEN a ELSE b

\* a contribution that counts a tie against the player, as a lost game
LookaheadScoreTieLost(g, player) ==
    IF winners(g) = <<player>> THEN HALF
    ELSE IF Len(winners(g)) >= 1 THEN 0 - HALF
    ELSE 0

\* the contribution of one simulated move in the loop of evaluate_state
LookaheadScore(g, player) ==
    IF winners(g) = <<player>> THEN HALF
    ELSE IF Len(winners(g)) = 1 THEN 0 - HALF
    ELSE 0

\* history: what is noted when a move is simulated, `site` being the method
\* that calls try_move on its copy and `over` the game_over of that copy
\* before the call
Simulated(site, over) == <<"sim", site, over>>

\* history: what is noted when minimax runs one of its loops on a position:
\* which loop, and whether the player to move there is the bot's player
Searched(maximizing, own_turn) == <<"node", maximizing, own_turn>>

RECURSIVE EvaluateLoop(_, _, _, _, _, _)
\* the loop of evaluate_state from its i-th move on: [heap, val, log], log
\* being the history notes of the loop
EvaluateLoop(heap, ref, player, moves, i, score) ==
    IF i > Len(moves) THEN [heap |-> heap, val |-> score, log |-> {}]
    ELSE LET c == copy(heap, ref)
             moved == StoreMove(c.heap, c.ref, moves[i])
             rest == EvaluateLoop(Release(moved, Len(heap)), ref, player, moves, i + 1,
                                  score + LookaheadScore(Load(moved, c.ref), player))
         IN  [rest EXCEPT !.log = @ \cup {Simulated("evaluate_state",
                                                    game_over(Load(c.heap, c.ref)))}]

\* Bot.evaluate_state: [heap, val, log]
evaluate_state(heap, ref, player) ==
    LET g == Load(heap, ref)
    IN  IF winners(g) = <<player>> THEN [heap |-> heap, val |-> WIN, log |-> {}]
        ELSE IF Len(winners(g)) = 1 THEN [heap |-> heap, val |-> 0 - WIN, log |-> {}]
        ELSE IF Len(winners(g)) > 1 THEN [heap |-> heap, val |-> 0, log |-> {}]
        ELSE EvaluateLoop(heap, ref, player, available_moves(g), 1, 0)

\* a cutoff taken one step too early
CutoffEarly(alpha, beta) == beta <= alpha + HALF

\* the test that ends a loop of minimax early
Cutoff(alpha, beta) == beta <= alpha

RECURSIVE minimax(_, _, _, _, _, _, _)
RECURSIVE MinimaxLoop(_, _, _, _, _, _, _, _, _, _)
\* one loop of minimax from its i-th move on; best is max_eval or min_eval;
\* [heap, val, log]
MinimaxLoop(heap, ref, player, depth, maximizing, moves, i, alpha, beta, best) ==
    IF i > Len(moves) THEN [heap |-> heap, val |-> best, log |-> {}]
    ELSE LET c == copy(heap, ref)
             moved == StoreMove(c.heap, c.ref, moves[i])
             sub == minimax(moved, c.ref, player, depth - 1, ~ maximizing, alpha, beta)
             after == Release(sub.heap, Len(heap))
             noted == sub.log \cup {Simulated("minimax", game_over(Load(c.heap, c.ref)))}
             rest == IF maximizing
                     THEN IF Cutoff(Max2(alpha, sub.val), beta)
                          THEN [heap |-> after, val |-> Max2(best, sub.val), log |-> {}]
                          ELSE MinimaxLoop(after, ref, player, depth, maximizing, moves,
                                           i + 1, Max2(alpha, sub.val), beta,
                                           Max2(best, sub.val))
                     ELSE IF Cutoff(alpha, Min2(beta, sub.val))
                          THEN [heap |-> after, val |-> Min2(best, sub.val), log |-> {}]
                          ELSE MinimaxLoop(after, ref, player, depth, maximizing, moves,
                                           i + 1, alpha, Min2(beta, sub.val),
                                           Min2(best, sub.val))
         IN  [rest EXCEPT !.log = @ \cup noted]

\* the search of one position in one of the two loops: [heap, val, log]
SearchMoves(heap, ref, player, depth, maximizing, alpha, beta) ==
    LET looped == MinimaxLoop(heap, ref, player, depth, maximizing,
                              available_moves(Load(heap, ref)), 1, alpha, beta,
                              IF maximizing THEN 0 - INF ELSE INF)
    IN  [looped EXCEPT !.log = @ \cup {Searched(maximizing,
                                                Load(heap, ref).cur_player = player)}]

\* a minimax whose base case tests the depth alone
minimax_depth_only(heap, ref, player, depth, maximizing, alpha, beta) ==
    IF depth = 0
    THEN evaluate_state(heap, ref, player)
    ELSE SearchMoves(heap, ref, player, depth, maximizing, alpha, beta)

\* Bot.minimax, for the bot of player `player`: [heap, val, log]
minimax(heap, ref, player, depth, maximizing, alpha, beta) ==
    IF depth = 0 \/ game_over(Load(heap, ref))
    THEN evaluate_state(heap, ref, player)
    ELSE SearchMoves(heap, ref, player, depth, maximizing, alpha, beta)

\* a depth whose cap on larger boards is one too high
RootDepthCapNine(size, n_moves) ==
    IF size = 3 THEN n_moves ELSE Min2(9 - size, n_moves)

\* a depth that counts the root move as one level of the search
RootDepthOneLess(size, n_moves) ==
    IF size = 3 THEN n_moves - 1 ELSE Min2(8 - size, n_moves) - 1

\* the depth get_move passes to minimax, from self.game.size and
\* len(available_moves)
RootDepth(size, n_moves) ==
    IF size = 3 THEN n_moves ELSE Min2(8 - size, n_moves)

\* a root call that takes the opponent's reply for a maximizing node
RootCallMaximizing(size, n_moves) ==
    [depth |-> RootDepth(size, n_moves), maximizing |-> TRUE,
     alpha |-> 0 - INF, beta |-> INF]

\* the arguments of the minimax call get_move makes for each move:
\* depth, maximizing, alpha, beta
RootCall(size, n_moves) ==
    [depth |-> RootDepth(size, n_moves), maximizing |-> FALSE,
     alpha |-> 0 - INF, beta |-> INF]

\* a test that lets a later move of equal score replace the earlier one
BetterOrEqual(eval, best_eval) == eval >= best_eval

\* the test that replaces best_move in get_move
Better(eval, best_eval) == eval > best_eval

RECURSIVE GetMoveLoop(_, _, _, _, _, _, _)
\* the loop of get_move from its i-th move on: [heap, move, eval, call, log];
\* move is <<>> while best_move is unassigned, call holds the arguments its
\* minimax calls are made with, log the history notes of the whole search
GetMoveLoop(heap, ref, player, moves, i, best_eval, best_move) ==
    IF i > Len(moves)
    THEN [heap |-> heap, move |-> best_move, eval |-> best_eval,
          call |-> RootCall(Load(heap, ref).size, Len(moves)), log |-> {}]
    ELSE LET c == copy(heap, ref)
             moved == StoreMove(c.heap, c.ref, moves[i])
             call == RootCall(Load(heap, ref).size, Len(moves))
             sub == minimax(moved, c.ref, player, call.depth, call.maximizing,
                            call.alpha, call.beta)
             after == Release(sub.heap, Len(heap))
             noted == sub.log \cup {Simulated("get_move", game_over(Load(c.heap, c.ref)))}
             rest == IF Better(sub.val, best_eval)
                     THEN GetMoveLoop(after, ref, player, moves, i + 1, sub.val, moves[i])
                     ELSE GetMoveLoop(after, ref, player, moves, i + 1, best_eval,
                                      best_move)
         IN  [rest EXCEPT !.log = @ \cup noted]

\* a get_move whose best_eval starts at 0 instead of -infinity
get_move_from_zero(heap, ref, player) ==
    GetMoveLoop(heap, ref, player, available_moves(Load(heap, ref)), 1, 0, <<>>)

\* Bot.get_move, for a bot whose game is at ref: [heap, move, eval, call, log]
get_move(heap, ref, player) ==
    GetMoveLoop(heap, ref, player, available_moves(Load(heap, ref)), 1, 0 - INF, <<>>)

\* what bot_call holds before any get_move call: called says whether a call
\* was made, player is the bot's player, before and after are the heap when the
\* call started and when it returned, call holds the arguments of its minimax
\* calls, move and eval are best_move and best_eval at the return, log holds
\* the history notes of the search
NoCall ==
    [called |-> FALSE, player |-> 0, before |-> <<>>, after |-> <<>>,
     call |-> <<>>, move |-> <<>>, eval |-> 0, log |-> {}]

----------------------------------------------------------------------------
(* The engine driven by a caller: one constructor call, then try_move calls *)
(* with in-bounds moves.                                                    *)

Cells(sz) == Range(sz) \X Range(sz)

Init ==
    /\ status = "new"
    /\ game = NoGame
    /\ args = <<0, 0>>
    /\ ret = "none"
    /\ moves_made = 0
    /\ past_end = FALSE
    /\ player_types = <<>>
    /\ bot_call = NoCall
    /\ bots = <<>>

\* TicTacToe(num_players, size)
Construct(num_players, size) ==
    /\ status = "new"
    /\ args' = <<num_players, size>>
    /\ ret' = InitCheck(num_players, size)
    /\ IF InitCheck(num_players, size) = "ok"
       THEN status' = "playing" /\ game' = NewGame(num_players, size)
       ELSE status' = "error" /\ game' = NoGame
    /\ UNCHANGED <<moves_made, past_end, player_types, bots, bot_call>>

\* game.try_move(move)
TryMove(move) ==
    /\ status = "playing"
    /\ game.size \in PlayedSizes
    /\ LET res == try_move(game, move)
       IN  /\ res.ret => moves_made < MoveCap(game.size)
           /\ game' = res.game
           /\ ret' = IF res.err # "none" THEN res.err
                     ELSE IF res.ret THEN "True" ELSE "False"
           /\ moves_made' = IF res.ret THEN moves_made + 1 ELSE moves_made
           /\ past_end' = (past_end \/ (res.ret /\ game_over(game)))
    /\ UNCHANGED <<status, args, player_types, bots, bot_call>>

Next ==
    \/ \E num_players \in 0 .. MaxPlayersArg, size \in 0 .. MaxSizeArg :
          Construct(num_players, size)
    \/ \E move \in Cells(game.size) : TryMove(move)

Spec == Init /\ [][Next]_vars

----------------------------------------------------------------------------
(* The grid of a game written directly through Grid.change_value: every    *)
(* board over 0..num_players, whether or not play can produce it.          *)

\* number of non-zero cells
Filled(grid) ==
    Cardinality({cell \in Cells(grid.size) : grid.values[cell[1]][cell[2]] # 0})

InitGrid ==
    /\ status = "playing"
    /\ \E size \in PlayedSizes :
          /\ game = NewGame(MIN_PLAYERS, size)
          /\ args = <<MIN_PLAYERS, size>>
    /\ ret = "ok"
    /\ moves_made = 0
    /\ past_end = FALSE
    /\ player_types = <<>>
    /\ bot_call = NoCall
    /\ bots = <<>>

\* game.grid.change_value(loc, new_value)
GridChangeValue(loc, new_value) ==
    /\ status = "playing"
    /\ LET w == change_value(game.grid, loc, new_value)
       IN  /\ Filled(w.grid) <= FillCap(game.size)
           /\ game' = [game EXCEPT !.grid = w.grid]
           /\ ret' = IF w.err # "none" THEN w.err ELSE "None"
    /\ UNCHANGED <<status, args, moves_made, past_end, player_types, bots, bot_call>>

NextGrid ==
    \E loc \in Cells(game.size), new_value \in 0 .. game.num_players :
        GridChangeValue(loc, new_value)

SpecGrid == InitGrid /\ [][NextGrid]_vars

----------------------------------------------------------------------------
(* Grid and try_move called with coordinates nobody checked: each one may   *)
(* lie up to MaxOvershoot beyond what list indexing accepts, on either side. *)

Coords(sz) == (0 - sz - MaxOvershoot) .. (sz - 1 + MaxOvershoot)

Locs(sz) == Coords(sz) \X Coords(sz)

InitBounds ==
    /\ status = "playing"
    /\ game = NewGame(MIN_PLAYERS, MIN_SIZE)
    /\ args = <<MIN_PLAYERS, MIN_SIZE>>
    /\ ret = "ok"
    /\ moves_made = 0
    /\ past_end = FALSE
    /\ player_types = <<>>
    /\ bot_call = NoCall
    /\ bots = <<>>

\* game.grid.get_cell(loc)
GetCellAt(loc) ==
    /\ ret' = IF get_cell(game.grid, loc).err # "none"
              THEN get_cell(game.grid, loc).err ELSE "int"
    /\ UNCHANGED <<status, game, args, moves_made, past_end, player_types, bots, bot_call>>

\* game.grid.change_value(loc, new_value)
ChangeValueAt(loc, new_value) ==
    /\ LET w == change_value(game.grid, loc, new_value)
       IN  /\ Filled(w.grid) <= MaxWrites
           /\ game' = [game EXCEPT !.grid = w.grid]
           /\ ret' = IF w.err # "none" THEN w.err ELSE "None"
    /\ UNCHANGED <<status, args, moves_made, past_end, player_types, bots, bot_call>>

\* game.try_move(move)
TryMoveAt(move) ==
    /\ LET res == try_move(game, move)
       IN  /\ Filled(res.game.grid) <= MaxWrites
           /\ res.ret => moves_made < MaxWrites
           /\ game' = res.game
           /\ ret' = IF res.err # "none" THEN res.err
                     ELSE IF res.ret THEN "True" ELSE "False"
           /\ moves_made' = IF res.ret THEN moves_made + 1 ELSE moves_made
           /\ past_end' = (past_end \/ (res.ret /\ game_over(game)))
    /\ UNCHANGED <<status, args, player_types, bots, bot_call>>

NextBounds ==
    \/ \E loc \in Locs(game.size) : GetCellAt(loc)
    \/ \E loc \in Locs(game.size), new_value \in 0 .. game.num_players :
          ChangeValueAt(loc, new_value)
    \/ \E move \in Locs(game.size) : TryMoveAt(move)

SpecBounds == InitBounds /\ [][NextBounds]_vars

----------------------------------------------------------------------------
(* A game with bots, as GUI.run drives it: while the game is not over, the   *)
(* bot of the current player is asked for its move, or a human clicks a cell. *)

RECURSIVE Replay(_, _, _)
\* the game after try_move was called with the first k moves of a list
Replay(g, moves, k) ==
    IF k = 0 THEN g
    ELSE CHOOSE h \in {try_move(prev, moves[k]).game : prev \in {Replay(g, moves, k - 1)}} :
             TRUE

\* self.bots after start_game in a GUI that came straight to the game: a Bot
\* for every player whose type is True, None (0) for the others
StartedBots(types) == [p \in DOMAIN types |-> IF types[p] THEN p ELSE 0]

\* the games SpecBot starts from: a fresh game on the smallest board, and on the
\* next larger board a game in which the cells were taken in row-major order
\* until at most MaxEmpty were left, with no line completed on the way
BotStarts ==
    {NewGame(MIN_PLAYERS, MIN_SIZE)}
    \cup {Replay(NewGame(np, MIN_SIZE + 1), RowMajor(MIN_SIZE + 1), k) :
             np \in MIN_PLAYERS .. MIN_PLAYERS + 1,
             k \in ((MIN_SIZE + 1) * (MIN_SIZE + 1) - MaxEmpty)
                     .. ((MIN_SIZE + 1) * MIN_SIZE)}

InitBot ==
    /\ status = "playing"
    /\ game \in BotStarts
    /\ args = <<game.num_players, game.size>>
    /\ ret = "ok"
    /\ moves_made = Filled(game.grid)
    /\ past_end = FALSE
    /\ player_types \in [1 .. game.num_players -> BOOLEAN]
    /\ bot_call = NoCall
    /\ bots = StartedBots(player_types)

\* a game screen that never leaves the game: the test of game_over is missing
GameScreenBranchNoEnd(g, types) ==
    IF types[g.cur_player] THEN "bot" ELSE "human"

\* the branch one iteration of GUI.run takes on the game screen: the game is
\* left alone once it is over, else the bot of the current player is asked for
\* its move, else a mouse click is looked at
GameScreenBranch(g, types) ==
    IF game_over(g) THEN "next_screen"
    ELSE IF types[g.cur_player] THEN "bot"
    ELSE "human"

\* bot = self.bots[cur_player-1]; move = bot.get_move();
\* self.game.try_move(move).  get_move returns a
\* best_move it never assigned by raising UnboundLocalError, which ends the
\* program
BotMove ==
    /\ status = "playing"
    /\ GameScreenBranch(game, player_types) = "bot"
    /\ \E r \in {get_move(HeapOf(game), LiveRef, bots[game.cur_player])} :
       /\ bot_call' = [called |-> TRUE, player |-> bots[game.cur_player],
                       before |-> HeapOf(game), after |-> r.heap,
                       call |-> r.call, move |-> r.move, eval |-> r.eval,
                       log |-> r.log]
       /\ IF r.move = <<>>
          THEN /\ status' = "crashed"
               /\ ret' = "UnboundLocalError"
               /\ UNCHANGED <<game, moves_made, past_end>>
          ELSE LET res == try_move(Load(r.heap, LiveRef), r.move)
               IN  /\ status' = status
                   /\ game' = res.game
                   /\ ret' = IF res.err # "none" THEN res.err
                             ELSE IF res.ret THEN "True" ELSE "False"
                   /\ moves_made' = IF res.ret THEN moves_made + 1 ELSE moves_made
                   /\ past_end' = (past_end \/ (res.ret /\ game_over(game)))
    /\ UNCHANGED <<args, player_types, bots>>

\* a click on the in-bounds cell `move` when the current player is human
HumanMove(move) ==
    /\ status = "playing"
    /\ GameScreenBranch(game, player_types) = "human"
    /\ LET res == try_move(game, move)
       IN  /\ game' = res.game
           /\ ret' = IF res.err # "none" THEN res.err
                     ELSE IF res.ret THEN "True" ELSE "False"
           /\ moves_made' = IF res.ret THEN moves_made + 1 ELSE moves_made
           /\ past_end' = (past_end \/ (res.ret /\ game_over(game)))
    /\ UNCHANGED <<status, args, player_types, bots, bot_call>>

NextBot ==
    \/ BotMove
    \/ \E move \in Cells(game.size) : HumanMove(move)

SpecBot == InitBot /\ [][NextBot]_vars

\* the smallest game with no bot: every player is human
InitHumans ==
    /\ status = "playing"
    /\ game = NewGame(MIN_PLAYERS, MIN_SIZE)
    /\ args = <<MIN_PLAYERS, MIN_SIZE>>
    /\ ret = "ok"
    /\ moves_made = 0
    /\ past_end = FALSE
    /\ player_types = [p \in 1 .. MIN_PLAYERS |-> FALSE]
    /\ bot_call = NoCall
    /\ bots = StartedBots(player_types)

NextHumans == \E move \in Cells(game.size) : HumanMove(move)

SpecHumans == InitHumans /\ [][NextHumans]_vars

----------------------------------------------------------------------------
(* Games on every board size, with any mix of bots and humans, taken up when  *)
(* at most MaxEmpty cells are still empty.                                    *)

\* the games SpecLate starts from: for every size and every player count the
\* constructor accepts, the cells were taken in row-major order until at most
\* MaxEmpty were left; only games that are not over are kept
LateStarts ==
    {g \in UNION {{Replay(NewGame(np, sz), RowMajor(sz), k) :
                      np \in {n \in MIN_PLAYERS .. MAX_PLAYERS : InitCheck(n, sz) = "ok"},
                      k \in (sz * sz - MaxEmpty) .. (sz * sz - 1)} :
                  sz \in MIN_SIZE .. MAX_SIZE} :
        ~ game_over(g)}

InitLate ==
    /\ status = "playing"
    /\ game \in LateStarts
    /\ args = <<game.num_players, game.size>>
    /\ ret = "ok"
    /\ moves_made = Filled(game.grid)
    /\ past_end = FALSE
    /\ player_types \in [1 .. game.num_players -> BOOLEAN]
    /\ bot_call = NoCall
    /\ bots = StartedBots(player_types)

SpecLate == InitLate /\ [][NextBot]_vars

\* the turn loop is at a bot's turn: BotMove is enabled, and it changes the
\* state (a move is placed, or the program ends)
BotTurn == status = "playing" /\ GameScreenBranch(game, player_types) = "bot"

\* GUI.run keeps iterating (while True), so a bot move that stays possible is
\* made: weak fairness of BotMove, with the enabledness of BotMove written as
\* its guard BotTurn
FairLate == SpecLate /\ ([]<>(~ BotTurn) \/ []<><<BotMove>>_vars)

----------------------------------------------------------------------------
(* The settings screens of the GUI (src/src/GUI.py) up to start_game: the   *)
(* starting screen with the buttons that change num_players and board_size, *)
(* then the player selection with a CPU button per player and START.        *)

\* the attributes of the GUI the settings change
Gui ==
    [num_players |-> args[1], board_size |-> args[2],
     player_types |-> player_types, bots |-> bots]

\* GUI.incr_num_players
incr_num_players(gui) ==
    IF gui.num_players < 4 /\ gui.board_size # 3
    THEN [gui EXCEPT !.num_players = @ + 1,
                     !.player_types = Append(@, FALSE),
                     !.bots = Append(@, 0)]
    ELSE gui

\* GUI.decr_num_players: player_types.pop(), the list of bots keeps its length
decr_num_players(gui) ==
    IF gui.num_players > 2
    THEN [gui EXCEPT !.num_players = @ - 1,
                     !.player_types = SubSeq(@, 1, Len(@) - 1)]
    ELSE gui

\* GUI.incr_board_size
incr_board_size(gui) ==
    IF gui.board_size < 7 THEN [gui EXCEPT !.board_size = @ + 1] ELSE gui

\* a decr_board_size that goes down to 3 whatever the number of players
decr_board_size_any_players(gui) ==
    IF gui.board_size > 3 THEN [gui EXCEPT !.board_size = @ - 1] ELSE gui

\* GUI.decr_board_size
decr_board_size(gui) ==
    IF gui.board_size > 4 THEN [gui EXCEPT !.board_size = @ - 1]
    ELSE IF gui.board_size = 4 /\ gui.num_players = 2
         THEN [gui EXCEPT !.board_size = @ - 1]
    ELSE gui

\* GUI.change_player_type
change_player_type(gui, player) ==
    [gui EXCEPT !.player_types[player] = ~ @]

\* GUI.__init__: the starting screen, 2 players on a 3 x 3 board, no bot
InitGui ==
    /\ status = "starting"
    /\ game = NoGame
    /\ args = <<2, 3>>
    /\ ret = "none"
    /\ moves_made = 0
    /\ past_end = FALSE
    /\ player_types = <<FALSE, FALSE>>
    /\ bot_call = NoCall
    /\ bots = <<0, 0>>

\* the attributes after a button of a settings screen ran its function
Becomes(gui) ==
    /\ args' = <<gui.num_players, gui.board_size>>
    /\ player_types' = gui.player_types
    /\ bots' = gui.bots
    /\ UNCHANGED <<status, game, ret, moves_made, past_end, bot_call>>

\* the four arrow buttons of the starting screen
IncrNumPlayers ==
    /\ status = "starting"
    /\ Len(incr_num_players(Gui).bots) <= MaxBots
    /\ Becomes(incr_num_players(Gui))

DecrNumPlayers == status = "starting" /\ Becomes(decr_num_players(Gui))

IncrBoardSize == status = "starting" /\ Becomes(incr_board_size(Gui))

DecrBoardSize == status = "starting" /\ Becomes(decr_board_size(Gui))

\* the NEXT button of the starting screen: next_screen
NextScreen ==
    /\ status = "starting"
    /\ status' = "selection"
    /\ UNCHANGED <<game, args, ret, moves_made, past_end, player_types, bot_call, bots>>

\* the CPU button of a player on the player selection
ChangePlayerType(player) ==
    /\ status = "selection"
    /\ Becomes(change_player_type(Gui, player))

\* the START button: start_game.  An exception of the constructor, or of an
\* index past the end of player_types or bots, ends the program
StartGame ==
    /\ status = "selection"
    /\ LET check == InitCheck(args[1], args[2])
           short == Len(player_types) < args[1] \/ Len(bots) < args[1]
       IN  /\ ret' = IF check # "ok" THEN check
                     ELSE IF short THEN "IndexError" ELSE "ok"
           /\ status' = IF check = "ok" /\ ~ short THEN "playing" ELSE "error"
           /\ game' = IF check = "ok" THEN NewGame(args[1], args[2]) ELSE NoGame
           /\ bots' = IF check = "ok" /\ ~ short
                      THEN [i \in DOMAIN bots |->
                               IF i <= args[1] /\ player_types[i] THEN i ELSE bots[i]]
                      ELSE bots
    /\ moves_made' = 0
    /\ past_end' = FALSE
    /\ bot_call' = NoCall
    /\ UNCHANGED <<args, player_types>>

NextGui ==
    \/ IncrNumPlayers
    \/ DecrNumPlayers
    \/ IncrBoardSize
    \/ DecrBoardSize
    \/ NextScreen
    \/ \E player \in 1 .. args[1] : ChangePlayerType(player)
    \/ StartGame

SpecGui == InitGui /\ [][NextGui]_vars

----------------------------------------------------------------------------
(* Vocabulary of the properties, defined on the board alone. *)

\* the value of an in-bounds cell
At(g, cell) == g.grid.values[cell[1]][cell[2]]

\* the lines of a board, as coordinate lists, in the priority order main
\* diagonal, anti-diagonal, rows top to bottom, columns left to right
PriorityLines(sz) ==
    <<[k \in 1 .. sz |-> <<k - 1, k - 1>>], [k \in 1 .. sz |-> <<sz - k, k - 1>>]>>
    \o [n \in 1 .. sz |-> [k \in 1 .. sz |-> <<n - 1, k - 1>>]]
    \o [n \in 1 .. sz |-> [k \in 1 .. sz |-> <<k - 1, n - 1>>]]

\* every cell of the line holds the same non-zero player id
LineUniform(g, line) ==
    \E p \in 1 .. MAX_PLAYERS : \A k \in DOMAIN line : At(g, line[k]) = p

\* positions, in the priority order, of the uniform lines of the board
UniformLines(g) ==
    {n \in DOMAIN PriorityLines(g.size) : LineUniform(g, PriorityLines(g.size)[n])}

\* no cell is 0
BoardFull(g) == \A cell \in Cells(g.size) : At(g, cell) # 0

\* the location lies outside [0, size) x [0, size)
OutOfBounds(sz, loc) ==
    loc[1] < 0 \/ loc[1] >= sz \/ loc[2] < 0 \/ loc[2] >= sz

\* the call ended with an exception
Raised(r) == r \in {"ValueError", "IndexError"}

\* the constructor arguments the contract rejects
BadConfiguration(num_players, size) ==
    \/ num_players < 2
    \/ num_players > 4
    \/ size < 3
    \/ size > 7
    \/ (size = 3 /\ num_players > 2)

----------------------------------------------------------------------------
(* Properties *)

\* C1: the constructor raises exactly for the rejected configurations; for every
\* other pair it yields a game with every cell 0, cur_player 1 and game_over False
C1_Construction ==
    status # "new" =>
        /\ (status = "error") <=> BadConfiguration(args[1], args[2])
        /\ (ret = "ValueError") <=> BadConfiguration(args[1], args[2])
        /\ status = "error" => game = NoGame
        /\ ret = "ok" =>
              /\ status = "playing"
              /\ game.num_players = args[1] /\ game.size = args[2]
              /\ \A cell \in Cells(game.size) : At(game, cell) = 0
              /\ game.cur_player = 1
              /\ ~ game_over(game)

\* C1 witness: TicTacToe(3, 3) has raised
C1_Witness == status = "error" /\ args = <<3, 3>> /\ ret = "ValueError"

\* C2: a try_move on an occupied in-bounds cell returns False and leaves
\* cur_player and every cell unchanged
C2_OccupiedRejected ==
    [][\A move \in Cells(game.size) :
          (status = "playing" /\ At(game, move) # 0 /\ TryMove(move)) =>
              /\ ret' = "False"
              /\ game'.cur_player = game.cur_player
              /\ \A cell \in Cells(game.size) : At(game', cell) = At(game, cell)]_vars

\* C2 witness: a try_move has been rejected on a board of the largest played size
C2_Witness ==
    status = "playing" /\ ret = "False" /\ moves_made > 1 /\ game.size = MIN_SIZE + 1

\* C3: a try_move on an empty in-bounds cell returns True, writes the pre-move
\* cur_player into exactly that cell and rotates cur_player
C3_EmptyAccepted ==
    [][\A move \in Cells(game.size) :
          (status = "playing" /\ At(game, move) = 0 /\ TryMove(move)) =>
              /\ ret' = "True"
              /\ At(game', move) = game.cur_player
              /\ \A cell \in Cells(game.size) \ {move} : At(game', cell) = At(game, cell)
              /\ game'.cur_player = (game.cur_player % game.num_players) + 1]_vars

\* C3 witness: the last player of a three-player game has moved, so the rotation wrapped
C3_Witness ==
    /\ status = "playing" /\ ret = "True"
    /\ game.num_players = 3 /\ moves_made = 3 /\ game.cur_player = 1

\* C4: after k successful moves, rejected ones interleaved, cur_player is (k mod num_players) + 1
C4_Rotation ==
    status = "playing" =>
        /\ game.cur_player = (moves_made % game.num_players) + 1
        /\ game.cur_player \in 1 .. game.num_players

\* C4 witness: three players, a full round of successful moves, then a rejected one
C4_Witness ==
    /\ status = "playing" /\ ret = "False"
    /\ game.num_players = 3 /\ moves_made = 3 /\ game.cur_player = 1

\* C5: game_over is True exactly when the board is full or some line is uniform
C5_GameOverIff ==
    status = "playing" =>
        (game_over(game) <=> (BoardFull(game) \/ UniformLines(game) # {}))

\* C5 witness: a board with an empty cell whose only uniform line is the anti-diagonal
C5_Witness ==
    /\ status = "playing" /\ game.size = MIN_SIZE + 1
    /\ ~ BoardFull(game) /\ UniformLines(game) = {2} /\ game_over(game)

\* C6: with no uniform line, winning_line is the empty list on a full board and
\* None on a board with an empty cell
C6_TieOrInProgress ==
    (status = "playing" /\ UniformLines(game) = {}) =>
        /\ BoardFull(game) => winning_line(game) = Some(<<>>)
        /\ ~ BoardFull(game) => winning_line(game) = None
        /\ Some(<<>>) # None

\* C6 witness: a played game that ended in a tie
C6_Witness ==
    /\ status = "playing" /\ moves_made = 9
    /\ BoardFull(game) /\ UniformLines(game) = {}
    /\ winning_line(game) = Some(<<>>)

\* C7: winners() is empty exactly when the game is not over, all players exactly
\* on a full board without a uniform line, otherwise the id in the first cell of
\* winning_line(); always within 1..num_players
C7_Winners ==
    status = "playing" =>
        LET w == winners(game)
            everyone == [k \in 1 .. game.num_players |-> k]
            line == winning_line(game)
        IN  /\ (w = <<>>) <=> ~ game_over(game)
            /\ (w = everyone) <=> (BoardFull(game) /\ UniformLines(game) = {})
            /\ (w # <<>> /\ w # everyone) =>
                  /\ ~ line.is_none /\ line.points # <<>>
                  /\ w = <<At(game, line.points[1])>>
            /\ \A k \in DOMAIN w : w[k] \in 1 .. game.num_players

\* C7 witness: player 2 is the single winner on a board that is not full
C7_Witness ==
    status = "playing" /\ winners(game) = <<2>> /\ ~ BoardFull(game)

\* C8 as stated: winners() has size 1 only when exactly one line is uniform
C8_ExactlyOneLine ==
    (status = "playing" /\ Len(winners(game)) = 1) =>
        Cardinality(UniformLines(game)) = 1

\* C8, amended: winners() has size 1 only when at least one line is uniform
C8_AtLeastOneLine ==
    (status = "playing" /\ Len(winners(game)) = 1) =>
        Cardinality(UniformLines(game)) >= 1

\* C8 witness: a single winner whose last move completed two lines at once, in
\* a game in which no move was made after the end
C8_Witness ==
    /\ status = "playing" /\ ~ past_end
    /\ Len(winners(game)) = 1
    /\ Cardinality(UniformLines(game)) = 2

\* C9: when some line is uniform, winning_line() is the first uniform line in the
\* priority order, also on a full board
C9_Priority ==
    (status = "playing" /\ UniformLines(game) # {}) =>
        winning_line(game) = Some(PriorityLines(game.size)[SetMin(UniformLines(game))])

\* C9 witness: a full board on which a row and a column are uniform and no
\* diagonal is; the row is returned
C9_Witness ==
    /\ status = "playing" /\ BoardFull(game)
    /\ \E r \in 1 .. game.size, c \in 1 .. game.size :
          /\ UniformLines(game) = {2 + r, 2 + game.size + c}
          /\ winning_line(game) = Some([k \in 1 .. game.size |-> <<r - 1, k - 1>>])

\* C10: game_over is True exactly when winning_line() is not None
C10_TerminalChecksAgree ==
    status = "playing" => (game_over(game) <=> ~ winning_line(game).is_none)

\* C10 witness: a board with an empty cell on which a column alone makes both checks terminal
C10_Witness ==
    /\ status = "playing" /\ ~ BoardFull(game)
    /\ UniformLines(game) # {}
    /\ \A n \in UniformLines(game) : n > 2 + game.size
    /\ game_over(game) /\ ~ winning_line(game).is_none

\* C11: get_cell and change_value fail for every location outside the grid: no
\* such call returns a cell value or modifies the grid
C11_OutOfBoundsFails ==
    [][\A loc \in Locs(game.size) :
          OutOfBounds(game.size, loc) =>
              /\ GetCellAt(loc) => Raised(ret')
              /\ \A v \in 0 .. game.num_players :
                    ChangeValueAt(loc, v) => (Raised(ret') /\ game' = game)]_vars

\* C12: try_move with a row or column outside the grid signals a failure and
\* leaves the grid and cur_player unchanged
C12_TryMoveOutOfBoundsFails ==
    [][\A move \in Locs(game.size) :
          (OutOfBounds(game.size, move) /\ TryMoveAt(move)) =>
              (Raised(ret') /\ game' = game)]_vars

\* C13: get_move never mutates the live game: when it returns, the objects of
\* the live game (every cell of its grid, cur_player) are as they were when the
\* call started, and nothing a simulated move wrote is left in the heap
C13_LiveGameUntouched ==
    bot_call.called => bot_call.after = bot_call.before

\* C13 witness: get_move was called on the empty 3x3 board, simulated moves on
\* copies, and the move it returned was then played on the live game
C13_Witness ==
    /\ bot_call.called
    /\ Filled(Load(bot_call.before, LiveRef).grid) = 0
    /\ bot_call.after = bot_call.before
    /\ Filled(game.grid) >= 1

\* C14: from the empty 3x3 2-player board, when player 1 plays the moves of its
\* bot and player 2 replies in any way (the optimal replies among them), the game
\* never has player 2 as its only winner
C14_BotNeverLoses ==
    (status = "playing" /\ game.size = MIN_SIZE /\ player_types = <<TRUE, FALSE>>)
        => winners(game) # <<2>>

\* C14 witness: such a game, played to a full board, ended in a draw
C14_Witness ==
    /\ status = "playing" /\ game.size = MIN_SIZE /\ player_types = <<TRUE, FALSE>>
    /\ bot_call.called /\ bot_call.player = 1
    /\ BoardFull(game)
    /\ winners(game) = <<1, 2>>

RECURSIVE Unpruned(_, _, _, _)
\* minimax without the beta <= alpha break: the maximum or the minimum, over
\* every available move, of the value of the position the move leads to
Unpruned(g, player, depth, maximizing) ==
    IF depth = 0 \/ game_over(g)
    THEN evaluate_state(HeapOf(g), LiveRef, player).val
    ELSE LET vals == {Unpruned(try_move(g, m).game, player, depth - 1, ~ maximizing) :
                         m \in {available_moves(g)[k] : k \in 1 .. Len(available_moves(g))}}
         IN  IF maximizing THEN SetMax(vals) ELSE SetMin(vals)

\* the number of empty cells of a board
Empties(g) == Cardinality({cell \in Cells(g.size) : At(g, cell) = 0})

\* C15: in every reachable 3x3 2-player state, for the bot of either player,
\* every depth up to MaxDepth and either value of maximizing, minimax called with
\* alpha = -infinity and beta = +infinity returns the score of the unpruned search
\* (a rejected click changes nothing of the game, so each board is looked at once,
\* as the initial state or as the state its last accepted move produced)
C15_AlphaBetaEquivalence ==
    (status = "playing" /\ game.size = MIN_SIZE /\ ret # "False") =>
        \A player \in 1 .. game.num_players, depth \in 0 .. MaxDepth,
           maximizing \in BOOLEAN :
            minimax(HeapOf(game), LiveRef, player, depth, maximizing, 0 - INF, INF).val
                = Unpruned(game, player, depth, maximizing)

\* C15 witness: a position, over or not, with MaxDepth moves still to make, where
\* the full-window search of player 1's bot agrees with the unpruned one on a
\* value that depends on who moves first
C15_Witness ==
    /\ status = "playing" /\ game.size = MIN_SIZE /\ ret = "True"
    /\ ~ game_over(game)
    /\ Empties(game) > MaxDepth
    /\ minimax(HeapOf(game), LiveRef, 1, MaxDepth, TRUE, 0 - INF, INF).val
           = Unpruned(game, 1, MaxDepth, TRUE)
    /\ Unpruned(game, 1, MaxDepth, TRUE) # Unpruned(game, 1, MaxDepth, FALSE)

\* the board after the current player takes an empty cell
Place(g, cell) == [g EXCEPT !.grid.values[cell[1]][cell[2]] = g.cur_player]

\* the empty cells whose taking by the current player leaves exactly one winner:
\* `player` (mine = TRUE) or somebody else (mine = FALSE)
DecidingCells(g, player, mine) ==
    {cell \in Cells(g.size) :
        /\ At(g, cell) = 0
        /\ Len(winners(Place(g, cell))) = 1
        /\ (winners(Place(g, cell))[1] = player) = mine}

\* C16: in halves, evaluate_state is 2 * 10 when winners() is exactly [player],
\* -2 * 10 when it is one other player, 0 when it has several players, and
\* otherwise the number of available moves that make player the only winner minus
\* the number that make another player the only winner
C16_EvaluateState ==
    status = "playing" =>
        \A player \in 1 .. game.num_players :
            evaluate_state(HeapOf(game), LiveRef, player).val =
                IF Len(winners(game)) = 1
                THEN (IF winners(game)[1] = player THEN 20 ELSE 0 - 20)
                ELSE IF Len(winners(game)) > 1 THEN 0
                ELSE Cardinality(DecidingCells(game, player, TRUE))
                         - Cardinality(DecidingCells(game, player, FALSE))

\* C16 witness: a game in progress in which the current player has two winning
\* cells and the evaluation for the next player is minus one whole point
C16_Witness ==
    /\ status = "playing" /\ winners(game) = <<>>
    /\ \E player \in 1 .. game.num_players :
          /\ player # game.cur_player
          /\ Cardinality(DecidingCells(game, player, FALSE)) = 2
          /\ evaluate_state(HeapOf(game), LiveRef, player).val = 0 - 2

\* get_move has just returned: the live game is the game the call was made on
\* with the returned move played
JustReturned ==
    /\ bot_call.called
    /\ ret = "True"
    /\ game = try_move(Load(bot_call.before, LiveRef), bot_call.move).game

\* the root scores of a position in the order of available_moves(): for each
\* move, the value of the search get_move runs on the position after it
RootScores(g, player, call) ==
    [k \in 1 .. Len(available_moves(g)) |->
        minimax(HeapOf(try_move(g, available_moves(g)[k]).game), LiveRef, player,
                call.depth, call.maximizing, call.alpha, call.beta).val]

\* C17: get_move returns the first move, in the row-major order of
\* available_moves(), whose root score is the maximum of the root scores
C17_FirstBestMove ==
    JustReturned =>
        \A g \in {Load(bot_call.before, LiveRef)} :
        \A scores \in {RootScores(g, bot_call.player, bot_call.call)} :
            LET best == SetMax({scores[k] : k \in 1 .. Len(scores)})
                first == SetMin({k \in 1 .. Len(scores) : scores[k] = best})
            IN  /\ bot_call.move = available_moves(g)[first]
                /\ bot_call.eval = best

\* C17 witness: get_move returned the first of several moves that share the
\* maximal root score, and a move of lower score came before it
C17_Witness ==
    /\ JustReturned
    /\ \E scores \in {RootScores(Load(bot_call.before, LiveRef), bot_call.player,
                                 bot_call.call)} :
          /\ Cardinality({k \in 1 .. Len(scores) : scores[k] = bot_call.eval}) >= 2
          /\ scores[1] < bot_call.eval

\* a cell comes before another in row-major order
RowMajorBefore(a, b) == a[1] < b[1] \/ (a[1] = b[1] /\ a[2] < b[2])

\* C18: available_moves() lists exactly the cells whose value is 0, in ascending
\* row-major order (so each once), and its length is size * size minus the number
\* of successful moves
C18_AvailableMoves ==
    status = "playing" =>
        \A am \in {available_moves(game)} :
            /\ {am[k] : k \in 1 .. Len(am)} = {cell \in Cells(game.size) : At(game, cell) = 0}
            /\ \A i \in 1 .. Len(am), j \in 1 .. Len(am) :
                  i < j => RowMajorBefore(am[i], am[j])
            /\ Len(am) = game.size * game.size - moves_made

\* C18 witness: after moves by a bot and by a human, cells of several rows and
\* of several columns are still available
C18_Witness ==
    /\ status = "playing" /\ bot_call.called /\ moves_made >= 3
    /\ \E am \in {available_moves(game)} :
          /\ Len(am) >= 4
          /\ Cardinality({am[k][1] : k \in 1 .. Len(am)}) >= 2
          /\ Cardinality({am[k][2] : k \in 1 .. Len(am)}) >= 2
          /\ am[1][2] > am[Len(am)][2]

\* the root depth budget D: the number of available moves on the 3x3 board, and
\* on larger boards that number or 8 - size, whichever is smaller
RootBudget(g) ==
    IF g.size = 3 THEN Empties(g)
    ELSE IF Empties(g) < 8 - g.size THEN Empties(g) ELSE 8 - g.size

\* the value of the position after the move get_move returned, searched as a
\* minimizing node with the full window to the depth given
ReturnedMoveValue(depth) ==
    minimax(HeapOf(try_move(Load(bot_call.before, LiveRef), bot_call.move).game),
            LiveRef, bot_call.player, depth, FALSE, 0 - INF, INF).val

\* C20 as stated: for each root move get_move evaluates the position after the
\* move as a minimizing node with remaining depth D - 1, alpha = -infinity and
\* beta = +infinity
C20_ChildDepthOneLess ==
    JustReturned =>
        /\ bot_call.call = [depth |-> RootBudget(Load(bot_call.before, LiveRef)) - 1,
                            maximizing |-> FALSE, alpha |-> 0 - INF, beta |-> INF]
        /\ bot_call.eval = ReturnedMoveValue(RootBudget(Load(bot_call.before, LiveRef)) - 1)

\* C20 amended: the remaining depth of that evaluation is D itself
C20_ChildDepthIsBudget ==
    JustReturned =>
        /\ bot_call.call = [depth |-> RootBudget(Load(bot_call.before, LiveRef)),
                            maximizing |-> FALSE, alpha |-> 0 - INF, beta |-> INF]
        /\ bot_call.eval = ReturnedMoveValue(RootBudget(Load(bot_call.before, LiveRef)))

\* C20 witness: a call on a 4x4 board with more empty cells than 8 - size: the
\* position after each root move was searched to depth 8 - size, which is D, and
\* the score get_move returned is the value of the returned move at that depth
C20_Witness ==
    /\ JustReturned
    /\ game.size > 3
    /\ Empties(Load(bot_call.before, LiveRef)) > 8 - game.size
    /\ bot_call.call.depth = 8 - game.size
    /\ bot_call.eval = ReturnedMoveValue(8 - game.size)

\* the caps of the root depth budget on the larger boards
DepthCap(size) ==
    CASE size = 4 -> 4 [] size = 5 -> 3 [] size = 6 -> 2 [] size = 7 -> 1

\* the budget as stated: the number of available moves on the 3x3 board, that
\* number capped by DepthCap on larger boards
StatedBudget(size, n) ==
    IF size = 3 THEN n ELSE IF n < DepthCap(size) THEN n ELSE DepthCap(size)

\* C21: the depth get_move searches with is the number of available moves when
\* size = 3 and min(number of available moves, 8 - size) for sizes 4..7, that is
\* capped at 4, 3, 2, 1; it is at least 1 when a move is available and, for the
\* same number of available moves, never larger on a larger board
C21_RootDepthBudget ==
    /\ JustReturned =>
          /\ bot_call.call.depth =
                StatedBudget(game.size, Empties(Load(bot_call.before, LiveRef)))
          /\ bot_call.call.depth >= 1
    /\ \A size \in MIN_SIZE .. MAX_SIZE :
          \A n \in 1 .. size * size :
              /\ RootDepth(size, n) = StatedBudget(size, n)
              /\ RootDepth(size, n) >= 1
              /\ size < MAX_SIZE => RootDepth(size + 1, n) <= RootDepth(size, n)

\* C21 witness: a bot has moved on the 7x7 board with several cells empty, and
\* searched to depth 1
C21_Witness ==
    /\ JustReturned
    /\ game.size = MAX_SIZE
    /\ Empties(Load(bot_call.before, LiveRef)) >= 3
    /\ bot_call.call.depth = 1

\* the history notes of the positions minimax ran a loop on during the last
\* get_move call
SearchedNodes == {e \in bot_call.log : e[1] = "node"}

\* C22: in every search get_move starts, for 2, 3 and 4 players, each position
\* minimax treats as maximizing is one where the bot's player is to move, and each
\* position it treats as minimizing is one where another player is to move
C22_NodesMatchTurns ==
    bot_call.called => \A e \in SearchedNodes : e[2] <=> e[3]

\* the history notes of the moves simulated during the last get_move call
SimulatedMoves == {e \in bot_call.log : e[1] = "sim"}

\* C23: in a get_move call on a game that is not over, no move is simulated, in
\* get_move, minimax or the lookahead of evaluate_state, on a position whose
\* game_over is True; and on a position that is over minimax returns what
\* evaluate_state returns, simulating nothing, whatever depth remains
C23_TerminalAbsorbing ==
    /\ bot_call.called => \A e \in SimulatedMoves : ~ e[3]
    /\ (status = "playing" /\ game_over(game)) =>
          \A player \in 1 .. game.num_players, depth \in 0 .. MaxDepth,
             maximizing \in BOOLEAN :
              /\ minimax(HeapOf(game), LiveRef, player, depth, maximizing,
                         0 - INF, INF).val
                     = evaluate_state(HeapOf(game), LiveRef, player).val
              /\ minimax(HeapOf(game), LiveRef, player, depth, maximizing,
                         0 - INF, INF).log = {}

\* C23 witness: the move a bot returned ended the game; its search simulated
\* moves in get_move and in minimax, met the final position with depth left and
\* scored it as evaluate_state does
C23_Witness ==
    /\ JustReturned
    /\ game_over(game)
    /\ bot_call.call.depth >= 2
    /\ {"get_move", "minimax"} \subseteq {e[2] : e \in SimulatedMoves}
    /\ bot_call.eval = evaluate_state(HeapOf(game), LiveRef, bot_call.player).val

\* C24: along any sequence of try_move calls with in-bounds moves, every cell
\* holds 0 or a player id in 1..num_players, and a non-zero cell is never
\* changed again
C24_CellsValidAndKept ==
    [][/\ status' = "playing" =>
             \A cell \in Cells(game'.size) : At(game', cell) \in 0 .. game'.num_players
       /\ status = "playing" =>
             \A cell \in Cells(game.size) :
                 At(game, cell) # 0 => At(game', cell) = At(game, cell)]_vars

\* C24 witness: in a game of three or more players with cells of the last player,
\* a move onto a taken cell was refused
C24_Witness ==
    /\ status = "playing" /\ game.num_players >= 3
    /\ ret = "False"
    /\ \E cell \in Cells(game.size) : At(game, cell) = game.num_players

\* C25: on the game screen a move, by click or by bot, is made only while
\* game_over is False: no try_move ever succeeds on a finished game, and once
\* game_over is True the game (board and turn) stays as it is
C25_NoMoveAfterEnd ==
    [][(game_over(game) => game' = game) /\ ~ past_end']_vars

\* C25 witness: a bot's move completed a line with cells still empty; the game
\* screen takes its game-over branch
C25_Witness ==
    /\ JustReturned
    /\ game_over(game) /\ ~ BoardFull(game)
    /\ GameScreenBranch(game, player_types) = "next_screen"

\* the moves of available_moves() as a set
AvailableSet(g) == {available_moves(g)[k] : k \in DOMAIN available_moves(g)}

\* C26: on a game with at least one available move get_move returns a member of
\* available_moves() (best_move is assigned), and the try_move the turn loop
\* makes with the move get_move returned returns True and places it
C26_BotMoveAvailable ==
    /\ [](available_moves(game) # <<>> =>
            \A r \in {get_move(HeapOf(game), LiveRef, game.cur_player)} :
                /\ r.move \in AvailableSet(game)
                /\ try_move(Load(r.heap, LiveRef), r.move).ret)
    /\ [][GameScreenBranch(game, player_types) = "bot" =>
            /\ bot_call'.move \in AvailableSet(game)
            /\ ret' = "True"
            /\ game' = try_move(game, bot_call'.move).game]_vars

\* C26 witness: a bot was asked for its move with several cells free, of which
\* the first was not the one it returned, and the move was placed
C26_Witness ==
    /\ JustReturned
    /\ Len(available_moves(Load(bot_call.before, LiveRef))) > 1
    /\ bot_call.move # available_moves(Load(bot_call.before, LiveRef))[1]
    /\ At(game, bot_call.move) = bot_call.player

\* the player before the player to move in the rotation 1, 2, ..., num_players
PredPlayer(g) == IF g.cur_player = 1 THEN g.num_players ELSE g.cur_player - 1

\* C27: in a game whose moves are made only while game_over is False, after
\* every successful move all uniform non-zero lines of the board belong to the
\* player who made it, and a singleton winners() is that player, the
\* predecessor of cur_player in the rotation
C27_LinesOfLastMover ==
    [][moves_made' = moves_made + 1 =>
          /\ \A n \in UniformLines(game') :
                At(game', PriorityLines(game'.size)[n][1]) = game.cur_player
          /\ UniformLines(game') # {} => winners(game') = <<game.cur_player>>
          /\ Len(winners(game')) = 1 => winners(game') = <<PredPlayer(game')>>]_vars

\* C27 witness: a move completed two lines at once, and its player is the only
\* winner
C27_Witness ==
    /\ ret = "True"
    /\ Cardinality(UniformLines(game)) > 1
    /\ winners(game) = <<PredPlayer(game)>>

\* every player of the game is computer-controlled
AllBots == \A p \in DOMAIN player_types : player_types[p]

\* C28: the number of non-zero cells equals the number of successful moves, the
\* game is over once size * size moves succeeded, every turn of a bot in a game
\* that is not over makes one successful move, and a game of bots only
\* eventually reaches game_over
C28_EveryMatchTerminates ==
    /\ [](/\ Filled(game.grid) = moves_made
          /\ moves_made <= game.size * game.size
          /\ moves_made = game.size * game.size => game_over(game))
    /\ [][GameScreenBranch(game, player_types) = "bot" =>
            moves_made' = moves_made + 1]_vars
    /\ (AllBots ~> game_over(game))

\* C28 witness: a game of bots only ended with the last free cell taken and no
\* line completed
C28_Witness ==
    /\ AllBots
    /\ JustReturned
    /\ moves_made = game.size * game.size
    /\ UniformLines(game) = {}
    /\ game_over(game)

\* C29: whatever buttons of the settings screens were used, num_players is
\* within 2..4, board_size within 3..7, a 3 x 3 board has 2 players only, and
\* player_types has num_players entries; start_game's constructor call raises
\* nothing and the game it builds has these settings
C29_SettingsValid ==
    /\ 2 <= args[1] /\ args[1] <= 4
    /\ 3 <= args[2] /\ args[2] <= 7
    /\ ~ (args[2] = 3 /\ args[1] > 2)
    /\ Len(player_types) = args[1]
    /\ status # "error" /\ ~ Raised(ret)
    /\ status = "playing" => ret = "ok" /\ game = NewGame(args[1], args[2])

\* C29 witness: a game of 2 players was started on a 3 x 3 board after the
\* number of players had been raised to 4 and lowered again
C29_Witness ==
    /\ status = "playing"
    /\ args = <<2, 3>>
    /\ Len(bots) = 4
    /\ game = NewGame(2, 3)

====
